---- MODULE Spec2Model ----
(***************************************************************************)
(* Capture-session lifecycle of WgcCaptureProvider                         *)
(* (src/src/capture_providers/windows/wgc_capture_provider.rs).            *)
(*                                                                         *)
(* The owner context calls set_capture_item / create_stream /             *)
(* start_capture / stop_capture through &mut self, so those calls are      *)
(* serialised and each one is an atomic action.  The platform invokes the  *)
(* FrameArrived handler of a frame pool whose session has been started;    *)
(* the handler holds the staging write lock from ensure_staging_state to   *)
(* the end of process_frame, so it is one atomic action as well.           *)
(*                                                                         *)
(* Platform objects (frame pools, capture sessions, event registrations)   *)
(* are modelled by what the code does to them: CreateFreeThreaded,         *)
(* CreateCaptureSession, FrameArrived, RemoveFrameArrived, StartCapture,   *)
(* Close, and dropping the last reference without Close.                   *)
(***************************************************************************)
EXTENDS Integers, Sequences, FiniteSets, TLC

\* ------------------------------------------------------------------ bounds
MaxArrivals == 2       \* frames the platform delivers in one run
MaxSends == 5          \* frames the platform delivers to the one stream of StreamSpec
NumItems == 2          \* distinct capture targets the picker can return
MaxGets == 5           \* buffers the handlers ask the pool for in PoolSpec

\* ------------------------------------------------------- program constants
PIPELINE_DEPTH == 2
PIXEL_FORMAT == "RGBA8"
BUFFER_POOL_SIZE == 4

None == 0
Items == 1..NumItems
\* the frame pools (each with its capture session and its stream) of one run:
\* two, so that one stream can be superseded by another
Pools == {1, 2}

\* capture_item.Size(): a target at one size is one item (a resized window
\* counts as another item); items 1, 2, 3 are 2x1, 1x2, 2x2
ItemSize(item) == [w |-> 1 + (item % 2), h |-> 1 + (item \div 2)]

VARIABLES
    capture_item,   \* Option<GraphicsCaptureItem>: None or an item
    staging,        \* Staging {textures, frame_count, width, height}
    frame_pool,     \* Option<Direct3D11CaptureFramePool>: None or a pool
    session,        \* Option<GraphicsCaptureSession>: None or a session
    stream_tokens,  \* Vec<i64> of FrameArrived registration tokens
    capturing,      \* bool
    pools,          \* platform: per frame pool, its state, size and handlers
    sessions,       \* platform: per capture session, its state
    rx,             \* per stream, the receiver half handed to the consumer
    chan,           \* per stream, the frames queued in its mpsc channel
    arrivals,       \* frames the platform has delivered so far
    aborted,        \* the process died of a panic inside a callback
    seen,           \* per stream, what poll_next has yielded where that is written down
    inflight,       \* per stream, the arrival its handler has taken and not yet processed
    buffer_pool,    \* BufferPool: the buffers it retains and how many it has allocated
    buffers,        \* the PooledBuffers that are out of the pool, and who holds each
    section,        \* per stream, how far its running callback is under the staging lock
    result          \* the last owner-context call and what it returned (for the claims)

provider == <<capture_item, staging, frame_pool, session, stream_tokens, capturing>>
platform == <<pools, sessions>>
streams == <<rx, chan>>
pooled == <<buffer_pool, buffers>>
vars == <<capture_item, staging, frame_pool, session, stream_tokens, capturing,
          pools, sessions, rx, chan, arrivals, aborted, seen, inflight,
          buffer_pool, buffers, section, result>>

\* the owner-context call op, made when self.capturing was `was`, returned ret
Returned(op, was, ret) == [op |-> op, was |-> was, ret |-> ret]

\* Staging::default()
StagingDefault == [textures |-> <<>>, frame_count |-> 0, width |-> 0, height |-> 0]

\* a frame pool nobody has created yet
FreePool == [state |-> "free", size |-> [w |-> 0, h |-> 0], handlers |-> {}]

\* BufferPool::init(BUFFER_POOL_SIZE): nothing retained, nothing allocated yet
BufferPoolInit == [free |-> {}, allocs |-> 0]

\* no PooledBuffer is out of the pool: none taken by a running handler of a
\* stream, none in a queued frame, none in a frame a consumer holds; and the
\* pool has discarded none
NoBuffers == [taken |-> [p \in Pools |-> <<>>],
              queued |-> [p \in Pools |-> <<>>],
              held |-> {},
              gone |-> {}]

\* a callback that does not hold the staging lock: it has not called
\* ensure_staging_state yet, or its guard has been dropped
Unlocked == [pc |-> "out", before |-> StagingDefault, c |-> 0, px |-> 0]

\* WgcCaptureProvider::new
Init ==
    /\ capture_item = None
    /\ staging = StagingDefault
    /\ frame_pool = None
    /\ session = None
    /\ stream_tokens = <<>>
    /\ capturing = FALSE
    /\ pools = [p \in Pools |-> FreePool]
    /\ sessions = [p \in Pools |-> "none"]
    /\ rx = [p \in Pools |-> "none"]
    /\ chan = [p \in Pools |-> <<>>]
    /\ arrivals = 0
    /\ aborted = FALSE
    /\ seen = [p \in Pools |-> <<>>]
    /\ inflight = [p \in Pools |-> 0]
    /\ buffer_pool = BufferPoolInit
    /\ buffers = NoBuffers
    /\ section = [p \in Pools |-> Unlocked]
    /\ result = Returned("new", FALSE, "Ok")

\* the set of elements of a sequence
Range(s) == {s[i] : i \in 1..Len(s)}

\* the next frame pool the platform creates
NextPool == Cardinality({p \in Pools : pools[p].state # "free"}) + 1

\* ----------------------------------------------------------------------
\* Dropping the provider's references to a pool and its session without
\* calling Close on them.  The code does not say what the platform does with
\* an unreferenced pool: it either destroys it (the handler closure and its
\* Sender go with it) or keeps it alive.
ReleasePool(ps, p, keep) ==
    IF p = None \/ keep THEN ps
    ELSE [ps EXCEPT ![p] = [@ EXCEPT !.state = "destroyed", !.handlers = {}]]

ReleaseSession(ss, p, keep) ==
    IF p = None \/ keep \/ ss[p] = "none" THEN ss
    ELSE [ss EXCEPT ![p] = "destroyed"]

\* ----------------------------------------------------------------------
\* set_capture_item with the staging reset left out
set_capture_item_KeepsStaging(item) ==
    /\ ~aborted
    /\ capture_item' = item
    /\ result' = Returned("set_capture_item", capturing, "Ok")
    /\ UNCHANGED <<staging, frame_pool, session, stream_tokens, capturing,
                   pools, sessions, rx, chan, arrivals, aborted, seen, inflight, pooled, section>>

\* set_capture_item: stores the item and resets the staging state (under the
\* staging write lock, which no callback holds between two actions)
set_capture_item(item) ==
    /\ ~aborted
    /\ capture_item' = item
    /\ staging' = [staging EXCEPT !.textures = <<>>, !.frame_count = 0]
    /\ result' = Returned("set_capture_item", capturing, "Ok")
    /\ UNCHANGED <<frame_pool, session, stream_tokens, capturing,
                   pools, sessions, rx, chan, arrivals, aborted, seen, inflight, pooled, section>>

\* ----------------------------------------------------------------------
\* arming that marks the session as capturing before StartCapture is known to
\* have succeeded
start_capture_arm_MarksFirst ==
    IF session # None THEN
        \E ok \in BOOLEAN :
            /\ capturing' = TRUE
            /\ sessions' = IF ok THEN [sessions EXCEPT ![session] = "started"] ELSE sessions
            /\ result' = Returned("start_capture", capturing,
                                  IF ok THEN "Ok" ELSE "FailedToStartCapture")
            /\ UNCHANGED <<capture_item, staging, frame_pool, session, stream_tokens, pools>>
    ELSE
        /\ capturing' = TRUE
        /\ result' = Returned("start_capture", capturing, "Ok")
        /\ UNCHANGED <<capture_item, staging, frame_pool, session, stream_tokens, platform>>

\* arming that refuses to start without a stored session
start_capture_arm_NeedsSession ==
    IF session # None THEN
        \E ok \in BOOLEAN :
            IF ok THEN
                /\ sessions' = [sessions EXCEPT ![session] = "started"]
                /\ capturing' = TRUE
                /\ result' = Returned("start_capture", capturing, "Ok")
                /\ UNCHANGED <<capture_item, staging, frame_pool, session,
                               stream_tokens, pools>>
            ELSE
                /\ result' = Returned("start_capture", capturing, "FailedToStartCapture")
                /\ UNCHANGED <<provider, platform>>
    ELSE
        /\ result' = Returned("start_capture", capturing, "NoFramePool")
        /\ UNCHANGED <<provider, platform>>

\* start_capture from the arming on: StartCapture on the stored session, if
\* there is one (the platform may refuse), then capturing = true
start_capture_arm ==
    IF session # None THEN
        \E ok \in BOOLEAN :
            IF ok THEN
                /\ sessions' = [sessions EXCEPT ![session] = "started"]
                /\ capturing' = TRUE
                /\ result' = Returned("start_capture", capturing, "Ok")
                /\ UNCHANGED <<capture_item, staging, frame_pool, session,
                               stream_tokens, pools>>
            ELSE
                /\ result' = Returned("start_capture", capturing, "FailedToStartCapture")
                /\ UNCHANGED <<provider, platform>>
    ELSE
        /\ capturing' = TRUE
        /\ result' = Returned("start_capture", capturing, "Ok")
        /\ UNCHANGED <<capture_item, staging, frame_pool, session, stream_tokens, platform>>

\* start_capture without the check of self.capturing
start_capture_NoCapturingCheck ==
    /\ ~aborted
    /\ IF capture_item = None THEN
            /\ result' = Returned("start_capture", capturing, "NoCaptureItem")
            /\ UNCHANGED <<provider, platform>>
       ELSE start_capture_arm
    /\ UNCHANGED <<streams, arrivals, aborted, seen, inflight, pooled, section>>

\* start_capture without the check of self.capture_item
start_capture_NoItemCheck ==
    /\ ~aborted
    /\ IF capturing THEN
            /\ result' = Returned("start_capture", capturing, "AlreadyCapturing")
            /\ UNCHANGED <<provider, platform>>
       ELSE start_capture_arm
    /\ UNCHANGED <<streams, arrivals, aborted, seen, inflight, pooled, section>>

\* start_capture
start_capture ==
    /\ ~aborted
    /\ IF capturing THEN
            /\ result' = Returned("start_capture", capturing, "AlreadyCapturing")
            /\ UNCHANGED <<provider, platform>>
       ELSE IF capture_item = None THEN
            /\ result' = Returned("start_capture", capturing, "NoCaptureItem")
            /\ UNCHANGED <<provider, platform>>
       ELSE start_capture_arm
    /\ UNCHANGED <<streams, arrivals, aborted, seen, inflight, pooled, section>>

\* ----------------------------------------------------------------------
\* RemoveFrameArrived(token) on frame pool p for every token of toks (a token
\* the pool does not know is an error the code ignores), then Close on p
CloseFramePool(ps, p, toks) ==
    [ps EXCEPT ![p] = [@ EXCEPT !.state = "closed", !.handlers = @ \ toks]]

\* stop_capture from the Close of the session on
stop_capture_teardown ==
    /\ sessions' = IF session # None
                   THEN [sessions EXCEPT ![session] = "closed"]
                   ELSE sessions
    /\ pools' = IF frame_pool # None
                THEN CloseFramePool(pools, frame_pool, Range(stream_tokens))
                ELSE pools
    /\ stream_tokens' = IF frame_pool # None THEN <<>> ELSE stream_tokens
    /\ session' = None
    /\ frame_pool' = None
    /\ capturing' = FALSE
    /\ UNCHANGED <<capture_item, staging>>

\* stop_capture that treats a call while not capturing as an error
stop_capture_NotCapturingError ==
    /\ ~aborted
    /\ IF ~capturing THEN
            /\ result' = Returned("stop_capture", capturing, "NotCapturing")
            /\ UNCHANGED <<provider, platform>>
       ELSE
            /\ result' = Returned("stop_capture", capturing, "Ok")
            /\ stop_capture_teardown
    /\ UNCHANGED <<streams, arrivals, aborted, seen, inflight, pooled, section>>

\* stop_capture
stop_capture ==
    /\ ~aborted
    /\ result' = Returned("stop_capture", capturing, "Ok")
    /\ IF ~capturing THEN
            UNCHANGED <<provider, platform>>
       ELSE
            stop_capture_teardown
    /\ UNCHANGED <<streams, arrivals, aborted, seen, inflight, pooled, section>>

\* ----------------------------------------------------------------------
\* create_stream.  fail names the platform call that fails ("none": all
\* succeed), keep is what the platform does with the pool and session whose
\* last reference the call drops.
\* The registration token of the handler of pool p is p.  A pool and session
\* that the call creates and then drops before any handler is registered on
\* the pool leave no trace: no event can reach them and nothing refers to them.

\* the platform calls of create_stream that can fail, in the order of the code
CreateStreamFailures ==
    IF capture_item = None THEN {"none"}
    ELSE {"none", "size", "pool", "session", "interval", "handler"}
            \cup (IF capturing THEN {"start"} ELSE {})

\* the error create_stream maps the failing platform call to
CreateStreamError(fail) ==
    CASE fail = "size" -> "FailedToGetCaptureItemSize"
      [] fail = "pool" -> "FailedToCreateFramePool"
      [] fail = "session" -> "FailedToCreateCaptureSession"
      [] fail = "interval" -> "FailedToSetMinUpdateInterval"
      [] fail = "handler" -> "FailedToSetFrameArrivedHandler"
      [] fail = "start" -> "FailedToStartCapture"

\* the registration with the token not recorded in stream_tokens
create_stream_register_NoToken(p, fail, keep) ==
    LET sz == ItemSize(capture_item)
        registered == [pools EXCEPT ![p] = [state |-> "open", size |-> sz, handlers |-> {p}]]
    IN
    /\ IF fail = "start" THEN
            /\ result' = Returned("create_stream", capturing, CreateStreamError(fail))
            /\ pools' = ReleasePool(registered, p, keep)
            /\ sessions' = ReleaseSession([sessions EXCEPT ![p] = "idle"], p, keep)
            /\ rx' = [rx EXCEPT ![p] = "dropped"]
            /\ UNCHANGED <<frame_pool, session>>
       ELSE
            /\ result' = Returned("create_stream", capturing, "Ok")
            /\ pools' = ReleasePool(registered, frame_pool, keep)
            /\ sessions' = ReleaseSession(
                    [sessions EXCEPT ![p] = IF capturing THEN "started" ELSE "idle"],
                    session, keep)
            /\ frame_pool' = p
            /\ session' = p
            /\ rx' = [rx EXCEPT ![p] = "live"]
    /\ UNCHANGED <<capture_item, staging, stream_tokens, capturing, chan>>

\* create_stream from the FrameArrived registration on: the handler is
\* registered on the new pool p and its token recorded; while capturing the new
\* session is started; then the new pool and session replace the stored ones
create_stream_register(p, fail, keep) ==
    LET sz == ItemSize(capture_item)
        registered == [pools EXCEPT ![p] = [state |-> "open", size |-> sz, handlers |-> {p}]]
    IN
    /\ stream_tokens' = Append(stream_tokens, p)
    /\ IF fail = "start" THEN
            \* the new pool, session and receiver are dropped on return
            /\ result' = Returned("create_stream", capturing, CreateStreamError(fail))
            /\ pools' = ReleasePool(registered, p, keep)
            /\ sessions' = ReleaseSession([sessions EXCEPT ![p] = "idle"], p, keep)
            /\ rx' = [rx EXCEPT ![p] = "dropped"]
            /\ UNCHANGED <<frame_pool, session>>
       ELSE
            /\ result' = Returned("create_stream", capturing, "Ok")
            /\ pools' = ReleasePool(registered, frame_pool, keep)
            /\ sessions' = ReleaseSession(
                    [sessions EXCEPT ![p] = IF capturing THEN "started" ELSE "idle"],
                    session, keep)
            /\ frame_pool' = p
            /\ session' = p
            /\ rx' = [rx EXCEPT ![p] = "live"]
    /\ UNCHANGED <<capture_item, staging, capturing, chan>>

\* create_stream without the check of self.capture_item
create_stream_NoItemCheck ==
    /\ ~aborted
    /\ \E fail \in CreateStreamFailures, keep \in BOOLEAN :
        IF fail \in {"size", "pool", "session", "interval", "handler"} THEN
            /\ keep
            /\ result' = Returned("create_stream", capturing, CreateStreamError(fail))
            /\ UNCHANGED <<provider, platform, streams>>
        ELSE
            /\ NextPool \in Pools
            /\ keep \/ fail = "start" \/ frame_pool # None
            /\ create_stream_register(NextPool, fail, keep)
    /\ UNCHANGED <<arrivals, aborted, seen, inflight, pooled, section>>

\* create_stream
create_stream ==
    /\ ~aborted
    /\ \E fail \in CreateStreamFailures, keep \in BOOLEAN :
        IF capture_item = None THEN
            /\ keep
            /\ result' = Returned("create_stream", capturing, "NoCaptureItem")
            /\ UNCHANGED <<provider, platform, streams>>
        ELSE IF fail \in {"size", "pool", "session", "interval", "handler"} THEN
            /\ keep
            /\ result' = Returned("create_stream", capturing, CreateStreamError(fail))
            /\ UNCHANGED <<provider, platform, streams>>
        ELSE
            /\ NextPool \in Pools
            /\ keep \/ fail = "start" \/ frame_pool # None
            /\ create_stream_register(NextPool, fail, keep)
    /\ UNCHANGED <<arrivals, aborted, seen, inflight, pooled, section>>

\* ----------------------------------------------------------------------
\* the frame-arrival callback

\* capacity of the channel create_stream makes: channel(Self::PIPELINE_DEPTH)
ChannelCapacity == PIPELINE_DEPTH

\* a staging texture CreateTexture2D has just made for desc: nothing copied yet
NewTexture(desc) == [w |-> desc.w, h |-> desc.h, content |-> 0]

NeedsRealloc(st, desc) ==
    st.textures = <<>> \/ st.width # desc.w \/ st.height # desc.h

\* a staging state that is rebuilt only when it holds no texture
ensure_staging_state_OnlyWhenEmpty(st, desc, ntex) ==
    IF st.textures = <<>>
    THEN [textures |-> [i \in 1..ntex |-> NewTexture(desc)],
          frame_count |-> 0, width |-> desc.w, height |-> desc.h]
    ELSE st

\* a reallocation that leaves the frame counter where it was
ensure_staging_state_KeepsCount(st, desc, ntex) ==
    IF NeedsRealloc(st, desc)
    THEN [textures |-> [i \in 1..ntex |-> NewTexture(desc)],
          frame_count |-> st.frame_count, width |-> desc.w, height |-> desc.h]
    ELSE st

\* ensure_staging_state's effect on the staging state; ntex is the number of
\* textures CreateTexture2D makes before it fails (PIPELINE_DEPTH: none fails)
ensure_staging_state(st, desc, ntex) ==
    IF NeedsRealloc(st, desc)
    THEN [textures |-> [i \in 1..ntex |-> NewTexture(desc)],
          frame_count |-> 0, width |-> desc.w, height |-> desc.h]
    ELSE st

\* 2^64 - 1 modulo d, computed without leaving 32-bit integers
U64MaxMod(d) ==
    LET a == 65536 % d
        b == (a * a) % d
        c == (b * b) % d
    IN (c + d - 1) % d

\* frame_count % PIPELINE_DEPTH
WriteIdx(c) == c % PIPELINE_DEPTH

\* a read index that is the index being written
ReadIdx_SameAsWrite(c) == c % PIPELINE_DEPTH

\* frame_count.wrapping_sub(1) as usize % PIPELINE_DEPTH
ReadIdx(c) == IF c = 0 THEN U64MaxMod(PIPELINE_DEPTH) ELSE (c - 1) % PIPELINE_DEPTH

\* a send that queues the frame whatever the length of the queue
try_send_Unbounded(p, frame) ==
    IF rx[p] # "live" THEN chan
    ELSE [chan EXCEPT ![p] = Append(@, frame)]

\* a send that makes room for the new frame by discarding the oldest queued one
try_send_DropOldest(p, frame) ==
    IF rx[p] # "live" THEN chan
    ELSE IF Len(chan[p]) >= ChannelCapacity THEN [chan EXCEPT ![p] = Append(Tail(@), frame)]
    ELSE [chan EXCEPT ![p] = Append(@, frame)]

\* a send that puts the new frame in front of the queued ones
try_send_Prepend(p, frame) ==
    IF rx[p] # "live" THEN chan
    ELSE IF Len(chan[p]) >= ChannelCapacity THEN chan
    ELSE [chan EXCEPT ![p] = <<frame>> \o @]

\* tx.try_send(frame) on the channel of stream p
try_send(p, frame) ==
    IF rx[p] # "live" THEN chan                              \* Closed: dropped
    ELSE IF Len(chan[p]) >= ChannelCapacity THEN chan        \* Full: dropped
    ELSE [chan EXCEPT ![p] = Append(@, frame)]

\* how many staging textures the reallocation may get before CreateTexture2D
\* fails; PIPELINE_DEPTH when none fails or none is needed
CreatedTextures(desc) ==
    IF NeedsRealloc(staging, desc) THEN 0..PIPELINE_DEPTH ELSE {PIPELINE_DEPTH}

\* PixelFormat::bytes_per_pixel: four bytes in both formats
BytesPerPixel(format) == 4

\* buffer_size of the handler: size.Width * size.Height * bytes_per_pixel, for
\* the size the capture item had when the stream was created
buffer_size(size) == size.w * size.h * BytesPerPixel(PIXEL_FORMAT)

\* the Direct3D11CaptureFrame the platform hands to the handler of pool p as
\* the id-th arrival of the run: its surface has the size the pool was created
\* with, its ContentSize is content, its SystemRelativeTime is id
CaptureFrame(p, id, content) == [id |-> id, desc |-> pools[p].size, content |-> content]

\* process_frame on staging state st with the buffer frame_buffer (of which
\* the model keeps the length) and the capture frame `frame`.  fail names the
\* platform call that fails, ntex is the number of staging textures a
\* reallocation gets.  The outcome is "sent" (try_send reached), "error" (Err
\* returned) or "panic" (index out of bounds).
process_frame(frame_buffer, frame, st, fail, ntex) ==
    LET desc == frame.desc
        st1 == ensure_staging_state(st, desc, ntex)
        wi == WriteIdx(st1.frame_count) + 1
        ri == ReadIdx(st1.frame_count) + 1
        st2 == [st1 EXCEPT !.textures[wi].content = frame.id]
        st3 == [st2 EXCEPT !.frame_count = @ + 1]
        \* Frame::new_ensure_rgba(frame_buffer, PIXEL_FORMAT, ContentSize,
        \* SystemRelativeTime or the default 0 when the platform does not give
        \* it, ..)
        out == [id |-> frame.id, px |-> st2.textures[ri].content,
                w |-> frame.content.w, h |-> frame.content.h,
                len |-> frame_buffer.len, format |-> PIXEL_FORMAT,
                timestamp |-> IF fail = "time" THEN 0 ELSE frame.id]
    IN
    IF fail = "surface" THEN
        [staging |-> st, outcome |-> "error"]
    ELSE IF NeedsRealloc(st, desc) /\ ntex < PIPELINE_DEPTH THEN
        \* FailedToCreateTexture: the partly rebuilt state stays
        [staging |-> st1, outcome |-> "error"]
    ELSE IF wi > Len(st1.textures) THEN
        [staging |-> st1, outcome |-> "panic"]
    ELSE IF ri > Len(st1.textures) THEN
        [staging |-> st2, outcome |-> "panic"]
    ELSE IF fail = "map" THEN
        [staging |-> st2, outcome |-> "error"]
    ELSE
        [staging |-> st3, outcome |-> "sent", frame |-> out]

\* the steps of a callback at which a platform call can fail
CallbackFailures == {"none", "next_frame", "surface", "map"}

\* a handler that unwraps the result of the send
handler_UnwrapsSend(p, fail, ntex, frame) ==
    LET buffer == [len |-> buffer_size(pools[p].size)]
        r == IF fail = "next_frame"
             THEN [staging |-> staging, outcome |-> "error"]
             ELSE process_frame(buffer, frame, staging, fail, ntex)
    IN
    /\ fail \in {"next_frame", "surface"} => ntex = PIPELINE_DEPTH
    /\ staging' = r.staging
    /\ aborted' = (r.outcome = "panic" \/ (r.outcome = "sent" /\ rx[p] # "live"))
    /\ chan' = IF r.outcome = "sent" THEN try_send(p, r.frame) ELSE chan

\* a handler whose frame counter advances only for a frame that was queued
handler_CountsOnlyQueued(p, fail, ntex, frame) ==
    LET buffer == [len |-> buffer_size(pools[p].size)]
        r == IF fail = "next_frame"
             THEN [staging |-> staging, outcome |-> "error"]
             ELSE process_frame(buffer, frame, staging, fail, ntex)
        queued == r.outcome = "sent" /\ try_send(p, r.frame) # chan
    IN
    /\ fail \in {"next_frame", "surface"} => ntex = PIPELINE_DEPTH
    /\ staging' = IF r.outcome = "sent" /\ ~queued
                  THEN [r.staging EXCEPT !.frame_count = @ - 1]
                  ELSE r.staging
    /\ aborted' = (r.outcome = "panic")
    /\ chan' = IF r.outcome = "sent" THEN try_send(p, r.frame) ELSE chan

\* One run of the handler registered for stream p, on the capture frame
\* `frame`: the handler takes the frame, sets the length of a pooled buffer to
\* buffer_size and calls process_frame, logs an error and returns Ok(()) in
\* every case; a panic inside it ends the process.
handler(p, fail, ntex, frame) ==
    LET buffer == [len |-> buffer_size(pools[p].size)]
        r == IF fail = "next_frame"
             THEN [staging |-> staging, outcome |-> "error"]
             ELSE process_frame(buffer, frame, staging, fail, ntex)
    IN
    /\ fail \in {"next_frame", "surface"} => ntex = PIPELINE_DEPTH
    /\ staging' = r.staging
    /\ aborted' = (r.outcome = "panic")
    /\ chan' = IF r.outcome = "sent" THEN try_send(p, r.frame) ELSE chan

\* The platform raises FrameArrived on pool p and the handler registered
\* there runs to its end, with the platform call fail failing and ntex staging
\* textures created if the staging state is rebuilt.  The target has the size
\* it had when the stream was created.
FrameArrivedWith(p, fail, ntex) ==
    /\ ~aborted
    /\ arrivals < MaxArrivals
    /\ pools[p].state = "open"
    /\ p \in pools[p].handlers
    /\ sessions[p] = "started"
    /\ arrivals' = arrivals + 1
    /\ handler(p, fail, ntex, CaptureFrame(p, arrivals + 1, pools[p].size))
    /\ UNCHANGED <<capture_item, frame_pool, session, stream_tokens, capturing,
                   platform, rx, seen, inflight, pooled, section, result>>

\* The platform raises FrameArrived on pool p and the handler registered
\* there runs to its end.
FrameArrived(p) ==
    \E fail \in CallbackFailures, ntex \in CreatedTextures(pools[p].size) :
        FrameArrivedWith(p, fail, ntex)

\* the ContentSize of a frame of a target that was created at size: the same,
\* or one pixel wider once the window has been resized
ContentSizes(size) == {size, [w |-> size.w + 1, h |-> size.h]}

\* The platform raises FrameArrived on pool p and every platform call of the
\* handler succeeds, except perhaps SystemRelativeTime, whose failure the code
\* replaces by the default timestamp: the callback gets as far as try_send.
\* The target may have been resized since the stream was created.
FrameArrivedSends(p) ==
    /\ ~aborted
    /\ arrivals < MaxSends
    /\ pools[p].state = "open"
    /\ p \in pools[p].handlers
    /\ sessions[p] = "started"
    /\ arrivals' = arrivals + 1
    /\ \E fail \in {"none", "time"}, content \in ContentSizes(pools[p].size) :
          handler(p, fail, PIPELINE_DEPTH, CaptureFrame(p, arrivals + 1, content))
    /\ UNCHANGED <<capture_item, frame_pool, session, stream_tokens, capturing,
                   platform, rx, seen, inflight, pooled, section, result>>

\* The platform raises FrameArrived on pool p: the handler registered there
\* starts on a platform thread and takes the frame (TryGetNextFrame); it runs
\* at most once at a time per pool.  What the buffer pool gives it is said by
\* the actions that use this one.
TakeFrame(p) ==
    /\ ~aborted
    /\ arrivals < MaxArrivals
    /\ pools[p].state = "open"
    /\ p \in pools[p].handlers
    /\ sessions[p] = "started"
    /\ inflight[p] = 0
    /\ arrivals' = arrivals + 1
    /\ inflight' = [inflight EXCEPT ![p] = arrivals + 1]
    /\ UNCHANGED <<provider, platform, streams, aborted, seen, section, result>>

\* The handler that started on pool p goes on to the end: process_frame with
\* the staging lock, then the handler and its clone of the sender are gone.
\* The owner context does not wait for it and may have run in between.  Where
\* the buffer ends up is said by the actions that use this one.
RunProcessFrame(p) ==
    /\ ~aborted
    /\ inflight[p] # 0
    /\ \E fail \in CallbackFailures \ {"next_frame"},
          ntex \in CreatedTextures(pools[p].size) :
          handler(p, fail, ntex, CaptureFrame(p, inflight[p], pools[p].size))
    /\ inflight' = [inflight EXCEPT ![p] = 0]
    /\ UNCHANGED <<capture_item, frame_pool, session, stream_tokens, capturing,
                   platform, rx, arrivals, seen, section, result>>

\* the two halves of a callback where the buffers are not followed
BeginCallback(p) == TakeFrame(p) /\ UNCHANGED pooled

EndCallback(p) == RunProcessFrame(p) /\ UNCHANGED pooled

\* ----------------------------------------------------------------------
\* the consumer of stream p

\* what poll_next yields at the end of the stream (None); frame ids are >= 1
End == 0

\* the sending half of stream p's channel exists: the handler registered on
\* pool p owns it, and a running callback holds a clone of it
TxAlive(p) == p \in pools[p].handlers \/ inflight[p] # 0

\* what poll_next on stream p yields: the oldest queued frame, or the end of
\* the stream when nothing is queued
Yielded(p) == IF chan[p] # <<>> THEN Head(chan[p]).id ELSE End

\* a poll_next that takes an empty queue for the end of the stream
poll_next_EndsWhenEmpty(p) ==
    /\ ~aborted
    /\ rx[p] = "live"
    /\ IF chan[p] # <<>>
       THEN chan' = [chan EXCEPT ![p] = Tail(@)]
       ELSE UNCHANGED chan
    /\ UNCHANGED <<provider, platform, rx, arrivals, aborted, inflight, section, result>>

\* poll_next on stream p: Ready with the oldest queued frame if there is one,
\* Ready with the end of the stream if there is none and every sender is
\* gone, and Pending, which is no step, otherwise
poll_next(p) ==
    /\ ~aborted
    /\ rx[p] = "live"
    /\ IF chan[p] # <<>>
       THEN chan' = [chan EXCEPT ![p] = Tail(@)]
       ELSE ~TxAlive(p) /\ UNCHANGED chan
    /\ UNCHANGED <<provider, platform, rx, arrivals, aborted, inflight, section, result>>

\* the consumer of stream p polls it
Recv(p) == poll_next(p) /\ UNCHANGED <<seen, pooled>>

\* the consumer of stream p has been told that the stream is over
SawEnd(p) == IF seen[p] = <<>> THEN FALSE ELSE seen[p][Len(seen[p])] = End

\* the consumer of stream p polls it and what it is given is written down; it
\* stops polling an empty stream once it has been told that the stream is over
RecvSeen(p) ==
    /\ poll_next(p)
    /\ chan[p] = <<>> => ~SawEnd(p)
    /\ seen' = [seen EXCEPT ![p] = Append(@, Yielded(p))]
    /\ UNCHANGED pooled

\* the consumer drops the stream: the receiver and the queued frames go
DropReceiver(p) ==
    /\ ~aborted
    /\ rx[p] = "live"
    /\ rx' = [rx EXCEPT ![p] = "dropped"]
    /\ chan' = [chan EXCEPT ![p] = <<>>]
    /\ UNCHANGED <<provider, platform, arrivals, aborted, seen, inflight, section, result>>

\* the consumer drops the stream, where the buffers are not followed
DropStream(p) == DropReceiver(p) /\ UNCHANGED pooled

Next ==
    \/ \E item \in Items : set_capture_item(item)
    \/ create_stream
    \/ start_capture
    \/ stop_capture
    \/ \E p \in Pools : FrameArrived(p)
    \/ \E p \in Pools : Recv(p)
    \/ \E p \in Pools : DropStream(p)

Spec == Init /\ [][Next]_vars

\* The platform delivers the frames it has and the consumers poll their
\* streams; the owner context is free to make no further call.
FairSpec ==
    /\ Spec
    /\ WF_vars(\E p \in Pools : FrameArrived(p))
    /\ WF_vars(\E p \in Pools : Recv(p))

\* One stream: the owner sets one item, creates one stream and starts the
\* capture; the platform then delivers frames that the callback processes
\* without a platform failure, and the consumer polls when it likes.
StreamNext ==
    \/ capture_item = None /\ set_capture_item(1)
    \/ capture_item # None /\ frame_pool = None /\ create_stream
    \/ frame_pool # None /\ ~capturing /\ start_capture
    \/ \E p \in Pools : FrameArrivedSends(p)
    \/ \E p \in Pools : RecvSeen(p)

StreamSpec == Init /\ [][StreamNext]_vars

\* The callbacks as the platform runs them, on threads of its own: a handler
\* that has started runs to its end whatever the owner context does in
\* between.  One item; what the consumers are given is written down.
ConcurrentNext ==
    \/ set_capture_item(1)
    \/ create_stream
    \/ start_capture
    \/ stop_capture
    \/ \E p \in Pools : BeginCallback(p)
    \/ \E p \in Pools : EndCallback(p)
    \/ \E p \in Pools : RecvSeen(p)
    \/ \E p \in Pools : DropStream(p)

ConcurrentSpec == Init /\ [][ConcurrentNext]_vars

\* One stream whose consumer keeps polling: the owner sets the item, creates
\* the stream and starts the capture, and may set the item again at any time;
\* the platform delivers frames, and any platform call of the callback may
\* fail on the first MaxArrivals of them.  The consumer is scheduled fairly;
\* the callback runs to its end within its action.
DeliveryNext ==
    \/ set_capture_item(1)
    \/ capture_item # None /\ frame_pool = None /\ create_stream
    \/ frame_pool # None /\ ~capturing /\ start_capture
    \/ \E p \in Pools : FrameArrived(p)
    \/ \E p \in Pools : FrameArrivedSends(p)
    \/ \E p \in Pools : RecvSeen(p)

FairDeliverySpec ==
    /\ Init /\ [][DeliveryNext]_vars
    /\ WF_vars(\E p \in Pools : RecvSeen(p))

\* The platform raises FrameArrived on pool p and the handler registered
\* there runs to its end, with the platform call fail failing and ntex staging
\* textures created if the staging state is rebuilt.  As FrameArrivedWith,
\* for the longer runs of PipelineSpec.
FrameArrivedLateWith(p, fail, ntex) ==
    /\ ~aborted
    /\ arrivals < MaxSends
    /\ pools[p].state = "open"
    /\ p \in pools[p].handlers
    /\ sessions[p] = "started"
    /\ arrivals' = arrivals + 1
    /\ handler(p, fail, ntex, CaptureFrame(p, arrivals + 1, pools[p].size))
    /\ UNCHANGED <<capture_item, frame_pool, session, stream_tokens, capturing,
                   platform, rx, seen, inflight, pooled, section, result>>

FrameArrivedLate(p) ==
    \E fail \in CallbackFailures, ntex \in CreatedTextures(pools[p].size) :
        FrameArrivedLateWith(p, fail, ntex)

\* The staging pipeline shared by the streams of one provider: the owner sets
\* items of different sizes, creates streams, which succeeds and leaves the
\* earlier frame pool alive, and starts the capture; the platform delivers
\* frames to every started stream and any platform call of the callback may
\* fail; the consumers may drop their streams but never poll, so that the
\* channels fill up.
PipelineNext ==
    \/ \E item \in Items : set_capture_item(item)
    \/ /\ create_stream
       /\ result'.ret = "Ok"
       /\ \A q \in Pools : pools[q].state = "open" => pools'[q] = pools[q]
    \/ ~capturing /\ start_capture
    \/ \E p \in Pools : FrameArrivedLate(p)
    \/ \E p \in Pools : DropStream(p)

PipelineSpec == Init /\ [][PipelineNext]_vars

\* The platform raises FrameArrived on pool p and the handler registered
\* there runs to its end; any platform call of it may fail, and the target may
\* have been resized since the stream was created.
FrameArrivedResized(p) ==
    /\ ~aborted
    /\ arrivals < MaxArrivals
    /\ pools[p].state = "open"
    /\ p \in pools[p].handlers
    /\ sessions[p] = "started"
    /\ arrivals' = arrivals + 1
    /\ \E fail \in CallbackFailures, ntex \in CreatedTextures(pools[p].size),
          content \in ContentSizes(pools[p].size) :
          handler(p, fail, ntex, CaptureFrame(p, arrivals + 1, content))
    /\ UNCHANGED <<capture_item, frame_pool, session, stream_tokens, capturing,
                   platform, rx, seen, inflight, pooled, section, result>>

\* Targets that change: the owner replaces the item by one of another size
\* and creates a stream for it next to the earlier one, and the windows are
\* resized while they are captured.
GeometryNext ==
    \/ \E item \in Items : set_capture_item(item)
    \/ /\ create_stream
       /\ result'.ret = "Ok"
       /\ \A q \in Pools : pools[q].state = "open" => pools'[q] = pools[q]
    \/ ~capturing /\ start_capture
    \/ \E p \in Pools : FrameArrivedResized(p)

GeometrySpec == Init /\ [][GeometryNext]_vars

\* ----------------------------------------------------------------------
\* the callback step by step, under the staging lock

\* the callback of stream p holds the write guard that ensure_staging_state
\* returned to process_frame
Holds(p) == section[p].pc # "out"

\* a lock that hands out its write guard whoever holds one already
write_NotExclusive == TRUE

\* staging_state.write(): the RwLock hands out the write guard once no other
\* guard exists, and the caller waits until then
write == \A q \in Pools : ~Holds(q)

\* the handler of stream p is over without a frame: process_frame returned an
\* error, which drops the guard if it had one
ReturnErr(p) ==
    /\ section' = [section EXCEPT ![p] = Unlocked]
    /\ inflight' = [inflight EXCEPT ![p] = 0]

\* process_frame up to ensure_staging_state, for the frame the handler of
\* stream p has taken: the platform calls before it may fail (fail =
\* "surface"); ensure_staging_state waits for the write lock, rebuilds the
\* staging state if it has to, with ntex textures created, and returns the
\* guard, or drops it with the error of CreateTexture2D.
LockStaging(p) ==
    /\ ~aborted
    /\ inflight[p] # 0
    /\ ~Holds(p)
    /\ \E fail \in {"none", "surface"}, ntex \in CreatedTextures(pools[p].size) :
        LET desc == pools[p].size
            st1 == ensure_staging_state(staging, desc, ntex)
        IN IF fail = "surface" THEN
               /\ ntex = PIPELINE_DEPTH
               /\ ReturnErr(p)
               /\ UNCHANGED staging
           ELSE
               /\ write
               /\ staging' = st1
               /\ IF NeedsRealloc(staging, desc) /\ ntex < PIPELINE_DEPTH
                  THEN ReturnErr(p)
                  ELSE /\ section' = [section EXCEPT ![p] =
                                [pc |-> "locked", before |-> staging, c |-> 0, px |-> 0]]
                       /\ UNCHANGED inflight
    /\ UNCHANGED <<capture_item, frame_pool, session, stream_tokens, capturing,
                   platform, streams, arrivals, aborted, seen, pooled, result>>

\* write_idx and copy_texture: the frame is copied to the write slot
CopyTexture(p) ==
    /\ ~aborted
    /\ section[p].pc = "locked"
    /\ LET wi == WriteIdx(staging.frame_count) + 1
       IN IF wi > Len(staging.textures) THEN
              /\ aborted' = TRUE
              /\ UNCHANGED <<staging, section>>
          ELSE
              /\ staging' = [staging EXCEPT !.textures[wi].content = inflight[p]]
              /\ section' = [section EXCEPT ![p].pc = "copied"]
              /\ UNCHANGED aborted
    /\ UNCHANGED <<capture_item, frame_pool, session, stream_tokens, capturing,
                   platform, streams, arrivals, seen, inflight, pooled, result>>

\* the read index and map_read_texture: the read slot is read into the
\* buffer; the frame counter read here is the one the increment adds to (a
\* plain u64 behind a guard that is taken to be exclusive)
MapReadTexture(p) ==
    /\ ~aborted
    /\ section[p].pc = "copied"
    /\ \E fail \in {"none", "map"} :
        LET ri == ReadIdx(staging.frame_count) + 1
        IN IF ri > Len(staging.textures) THEN
               /\ fail = "none"
               /\ aborted' = TRUE
               /\ UNCHANGED <<section, inflight>>
           ELSE IF fail = "map" THEN
               /\ ReturnErr(p)
               /\ UNCHANGED aborted
           ELSE
               /\ section' = [section EXCEPT ![p].pc = "mapped",
                                             ![p].c = staging.frame_count,
                                             ![p].px = staging.textures[ri].content]
               /\ UNCHANGED <<aborted, inflight>>
    /\ UNCHANGED <<provider, platform, streams, arrivals, seen, pooled, result>>

\* staging.frame_count += 1
CountFrame(p) ==
    /\ ~aborted
    /\ section[p].pc = "mapped"
    /\ staging' = [staging EXCEPT !.frame_count = section[p].c + 1]
    /\ section' = [section EXCEPT ![p].pc = "counted"]
    /\ UNCHANGED <<capture_item, frame_pool, session, stream_tokens, capturing,
                   platform, streams, arrivals, aborted, seen, inflight, pooled, result>>

\* the Frame that process_frame builds for the arrival the handler of stream
\* p is processing
BuiltFrame(p) ==
    [id |-> inflight[p], px |-> section[p].px,
     w |-> pools[p].size.w, h |-> pools[p].size.h,
     len |-> buffer_size(pools[p].size), format |-> PIXEL_FORMAT,
     timestamp |-> inflight[p]]

\* Frame::new_ensure_rgba and tx.try_send; process_frame returns Ok(()),
\* which drops the guard, and the handler is over
SendFrame(p) ==
    /\ ~aborted
    /\ section[p].pc = "counted"
    /\ chan' = try_send(p, BuiltFrame(p))
    /\ section' = [section EXCEPT ![p] = Unlocked]
    /\ inflight' = [inflight EXCEPT ![p] = 0]
    /\ UNCHANGED <<provider, platform, rx, arrivals, aborted, seen, pooled, result>>

\* The callbacks of two streams of one item, each on a thread of the
\* platform and step by step, and the owner, who sets the item again when it
\* gets the staging lock.
LockNext ==
    \/ write /\ set_capture_item(1)
    \/ /\ create_stream
       /\ result'.ret = "Ok"
       /\ \A q \in Pools : pools[q].state = "open" => pools'[q] = pools[q]
    \/ ~capturing /\ start_capture
    \/ \E p \in Pools : BeginCallback(p)
    \/ \E p \in Pools : LockStaging(p)
    \/ \E p \in Pools : CopyTexture(p)
    \/ \E p \in Pools : MapReadTexture(p)
    \/ \E p \in Pools : CountFrame(p)
    \/ \E p \in Pools : SendFrame(p)

LockSpec == Init /\ [][LockNext]_vars

\* the platform threads are scheduled fairly: a callback that can take its
\* next step takes it
FairLockSpec ==
    /\ LockSpec
    /\ \A p \in Pools :
          WF_vars(LockStaging(p) \/ CopyTexture(p) \/ MapReadTexture(p)
                      \/ CountFrame(p) \/ SendFrame(p))

\* ----------------------------------------------------------------------
\* the buffer pool (utils::buffer_pool), as the specification describes it.
\* A buffer is [id, cap]: the id-th buffer the pool has allocated, of capacity
\* cap.  The pool is [free, allocs]: the buffers it retains and the number of
\* buffers it has allocated so far.

\* the retained buffers that are large enough for a request of min_size
Sufficient(pool, min_size) == {b \in pool.free : b.cap >= min_size}

\* no buffer: what a request picks when nothing retained is large enough
NoBuffer == [id |-> 0, cap |-> 0]

\* the buffers a request of min_size may be served with: any retained buffer
\* that is large enough (the specification does not say which)
Picks(pool, min_size) ==
    IF Sufficient(pool, min_size) = {} THEN {NoBuffer} ELSE Sufficient(pool, min_size)

\* a pool that allocates a fresh buffer for every request
get_or_create_AlwaysFresh(pool, min_size, pick) ==
    [buf |-> [id |-> pool.allocs + 1, cap |-> min_size],
     pool |-> [pool EXCEPT !.allocs = @ + 1]]

\* a pool that goes on retaining the buffer it hands out
get_or_create_KeepsFree(pool, min_size, pick) ==
    IF pick \in Sufficient(pool, min_size)
    THEN [buf |-> pick, pool |-> pool]
    ELSE [buf |-> [id |-> pool.allocs + 1, cap |-> min_size],
          pool |-> [pool EXCEPT !.allocs = @ + 1]]

\* get_or_create(min_size): the retained buffer pick if it is large enough,
\* which then leaves the retained set; a fresh buffer of capacity min_size
\* otherwise
get_or_create(pool, min_size, pick) ==
    IF pick \in Sufficient(pool, min_size)
    THEN [buf |-> pick, pool |-> [pool EXCEPT !.free = @ \ {pick}]]
    ELSE [buf |-> [id |-> pool.allocs + 1, cap |-> min_size],
          pool |-> [pool EXCEPT !.allocs = @ + 1]]

\* a release that retains every buffer
release_KeepsAll(pool, b) == [pool EXCEPT !.free = @ \cup {b}]

\* release(buffer): the pool retains the buffer, unless it already retains
\* BUFFER_POOL_SIZE buffers: then the buffer is discarded
release(pool, b) ==
    IF Cardinality(pool.free) >= BUFFER_POOL_SIZE THEN pool
    ELSE [pool EXCEPT !.free = @ \cup {b}]

\* a PooledBuffer out of the pool: the buffer, the length set on it and the
\* arrival it was taken for
Lease(id, buf, len) == [frame |-> id, buf |-> buf, len |-> len]

\* an acquisition that asks the pool for one byte per pixel
acquire_RequestsPixels(pool, size, pick, id) ==
    LET r == get_or_create(pool, size.w * size.h, pick)
    IN [pool |-> r.pool, lease |-> Lease(id, r.buf, buffer_size(size))]

\* the handler's acquisition for the id-th arrival, in a stream created for a
\* target of size: get_or_create(buffer_size), then set_len(buffer_size)
acquire(pool, size, pick, id) ==
    LET r == get_or_create(pool, buffer_size(size), pick)
    IN [pool |-> r.pool, lease |-> Lease(id, r.buf, buffer_size(size))]

\* what the pool was last asked: op on buffer buf; size is the size asked for
\* in a get_or_create and, in a release that follows the get_or_create of its
\* buffer at once, the size that one asked for (0 in any other release); kept
\* says that the pool retains buf after a release; again says that a
\* get_or_create repeats the request whose buffer has just been released
Asked(op, size, buf, kept, again) ==
    [op |-> op, was |-> capturing, ret |-> "Ok",
     size |-> size, buf |-> buf, kept |-> kept, again |-> again]

\* the last thing the pool was asked was to take back a buffer it had just
\* handed out for a request of min_size
JustReleased(min_size) ==
    IF result.op = "release" THEN result.size = min_size ELSE FALSE

\* the sizes of the targets whose streams ask the pool for buffers in
\* PoolSpec: one more than Items, so that two buffer sizes occur
PoolTargets == {ItemSize(item) : item \in 1..(NumItems + 1)}

\* A handler of a stream created for a target of size acquires the buffer for
\* an arrival; nothing else of the capture moves.
PoolAcquire(size) ==
    /\ arrivals < MaxGets
    /\ \E pick \in Picks(buffer_pool, buffer_size(size)) :
        LET a == acquire(buffer_pool, size, pick, arrivals + 1)
        IN /\ buffer_pool' = a.pool
           /\ buffers' = [buffers EXCEPT !.held = @ \cup {a.lease}]
           /\ result' = Asked("get_or_create", a.lease.len, a.lease.buf, FALSE,
                               JustReleased(a.lease.len))
    /\ arrivals' = arrivals + 1
    /\ UNCHANGED <<provider, platform, streams, aborted, seen, inflight, section>>

\* a PooledBuffer is dropped: release(b) on pool, where bufs says who holds
\* which buffer and which buffers the pool has discarded
Return(pool, bufs, b) ==
    [pool |-> release(pool, b),
     buffers |-> IF b \in release(pool, b).free THEN bufs
                 ELSE [bufs EXCEPT !.gone = @ \cup {b}]]

\* the PooledBuffers of the leases of sequence q are dropped, one after the other
RECURSIVE ReturnAll(_, _, _)
ReturnAll(pool, bufs, q) ==
    IF q = <<>> THEN [pool |-> pool, buffers |-> bufs]
    ELSE LET r == Return(pool, bufs, Head(q).buf)
         IN ReturnAll(r.pool, r.buffers, Tail(q))

\* The holder of a PooledBuffer lets it go: it returns to the pool.
PoolRelease(l) ==
    /\ l \in buffers.held
    /\ LET r == Return(buffer_pool, [buffers EXCEPT !.held = @ \ {l}], l.buf)
       IN buffer_pool' = r.pool /\ buffers' = r.buffers
    /\ result' = Asked("release",
                       IF result.op = "get_or_create" THEN
                           IF result.buf = l.buf THEN result.size ELSE 0
                       ELSE 0,
                       l.buf, l.buf \in release(buffer_pool, l.buf).free, FALSE)
    /\ UNCHANGED <<provider, platform, streams, arrivals, aborted, seen, inflight, section>>

\* The buffer pool alone: buffers of the sizes of PoolTargets are asked for
\* and let go in any order.
PoolNext ==
    \/ \E size \in PoolTargets : PoolAcquire(size)
    \/ \E l \in buffers.held : PoolRelease(l)

PoolSpec == Init /\ [][PoolNext]_vars

\* ----------------------------------------------------------------------
\* the callbacks and the consumers with the buffers followed

\* a handler that forgets the buffer of a frame it could not hand over
settle_ForgetsDropped(pool, bufs, p, outcome) ==
    LET l == bufs.taken[p][1]
        rest == [bufs EXCEPT !.taken[p] = <<>>]
    IN IF outcome = "queued"
       THEN [pool |-> pool, buffers |-> [rest EXCEPT !.queued[p] = Append(@, l)]]
       ELSE IF outcome = "panic" THEN [pool |-> pool, buffers |-> bufs]
       ELSE [pool |-> pool, buffers |-> rest]

\* where the buffer the handler of stream p took ends up when the handler is
\* over: in the frame queued on the channel (outcome "queued"); back in the
\* pool when process_frame returned an error, which drops frame_buffer, or
\* when try_send gave the frame back as Full or Closed, which drops the frame
\* (outcome "dropped"); nowhere when the process died of a panic
settle(pool, bufs, p, outcome) ==
    LET l == bufs.taken[p][1]
        rest == [bufs EXCEPT !.taken[p] = <<>>]
    IN IF outcome = "queued"
       THEN [pool |-> pool, buffers |-> [rest EXCEPT !.queued[p] = Append(@, l)]]
       ELSE IF outcome = "panic" THEN [pool |-> pool, buffers |-> bufs]
       ELSE Return(pool, rest, l.buf)

\* The handler of pool p starts, takes the frame and acquires its buffer.
BeginCallbackPooled(p) ==
    /\ TakeFrame(p)
    /\ \E pick \in Picks(buffer_pool, buffer_size(pools[p].size)) :
        LET a == acquire(buffer_pool, pools[p].size, pick, arrivals + 1)
        IN /\ buffer_pool' = a.pool
           /\ buffers' = [buffers EXCEPT !.taken[p] = <<a.lease>>]

\* The handler that started on pool p goes on to the end, and its buffer goes
\* with the frame or back to the pool.
EndCallbackPooled(p) ==
    /\ RunProcessFrame(p)
    /\ LET outcome == IF aborted' THEN "panic"
                      ELSE IF Len(chan'[p]) > Len(chan[p]) THEN "queued"
                      ELSE "dropped"
           r == settle(buffer_pool, buffers, p, outcome)
       IN buffer_pool' = r.pool /\ buffers' = r.buffers

\* The consumer of stream p polls it; a frame it is given is its own from
\* then on, with the buffer in it.
RecvPooled(p) ==
    /\ poll_next(p)
    /\ IF chan[p] # <<>>
       THEN buffers' = [buffers EXCEPT !.queued[p] = Tail(@),
                                       !.held = @ \cup {Head(buffers.queued[p])}]
       ELSE UNCHANGED buffers
    /\ UNCHANGED <<seen, buffer_pool>>

\* A consumer drops a frame it holds: the buffer in it returns to the pool.
ReleaseFrame(l) ==
    /\ ~aborted
    /\ l \in buffers.held
    /\ LET r == Return(buffer_pool, [buffers EXCEPT !.held = @ \ {l}], l.buf)
       IN buffer_pool' = r.pool /\ buffers' = r.buffers
    /\ UNCHANGED <<provider, platform, streams, arrivals, aborted, seen, inflight, section, result>>

\* The consumer drops the stream: the receiver goes and the frames queued on
\* it are dropped, each with the buffer in it.
DropStreamPooled(p) ==
    /\ DropReceiver(p)
    /\ LET r == ReturnAll(buffer_pool, [buffers EXCEPT !.queued[p] = <<>>],
                          buffers.queued[p])
       IN buffer_pool' = r.pool /\ buffers' = r.buffers

\* The capture with its buffers: the callbacks run on threads of the
\* platform, each with a buffer of the shared pool, and the consumers hold
\* the frames they were given for as long as they like.  One item.
BufferNext ==
    \/ set_capture_item(1)
    \/ create_stream
    \/ start_capture
    \/ stop_capture
    \/ \E p \in Pools : BeginCallbackPooled(p)
    \/ \E p \in Pools : EndCallbackPooled(p)
    \/ \E p \in Pools : RecvPooled(p)
    \/ \E l \in buffers.held : ReleaseFrame(l)
    \/ \E p \in Pools : DropStreamPooled(p)

BufferSpec == Init /\ [][BufferNext]_vars

\* ----------------------------------------------------------------------
\* the end of the provider

\* the provider has been dropped: the owner context can make no further call
Dropped == result.op = "drop"

\* Drop for WgcCaptureProvider: stop_capture, its result ignored, and then the
\* fields go: a frame pool and a session still stored lose the provider's
\* references without Close (keep is what the platform does with them then)
drop ==
    /\ ~aborted
    /\ ~Dropped
    /\ result' = Returned("drop", capturing, "Ok")
    /\ \E keep \in BOOLEAN :
        IF capturing THEN
            /\ keep
            /\ stop_capture_teardown
        ELSE
            /\ keep \/ frame_pool # None
            /\ pools' = ReleasePool(pools, frame_pool, keep)
            /\ sessions' = ReleaseSession(sessions, session, keep)
            /\ frame_pool' = None
            /\ session' = None
            /\ UNCHANGED <<capture_item, staging, stream_tokens, capturing>>
    /\ UNCHANGED <<streams, arrivals, aborted, seen, inflight, pooled, section>>

\* The owner context alone, to the end of the provider: it sets one item,
\* creates streams, starts and stops as it likes and at some point drops the
\* provider, after which it can call nothing.
OwnerNext ==
    \/ ~Dropped /\ set_capture_item(1)
    \/ ~Dropped /\ create_stream
    \/ ~Dropped /\ start_capture
    \/ ~Dropped /\ stop_capture
    \/ drop

OwnerSpec == Init /\ [][OwnerNext]_vars

\* ======================================================================
\* Properties of the session lifecycle
\* ======================================================================

\* C1: start_capture called while the session is capturing returns
\* AlreadyCapturing and changes nothing of the provider, the platform objects
\* or the streams.
C1_StartWhileCapturing ==
    [][(capturing /\ start_capture) =>
          /\ result' = Returned("start_capture", TRUE, "AlreadyCapturing")
          /\ UNCHANGED <<provider, platform, streams>>]_vars

\* a second start of a running capture with a stream attached was refused
C1_Witness ==
    /\ result = Returned("start_capture", TRUE, "AlreadyCapturing")
    /\ capturing
    /\ session # None
    /\ sessions[session] = "started"
    /\ stream_tokens # <<>>

\* C2: stop_capture always succeeds and leaves the session not capturing;
\* called while not capturing it changes nothing, so stopping twice in a row
\* is the same as stopping once.
C2_StopIdempotent ==
    [][stop_capture =>
          /\ result'.ret = "Ok"
          /\ ~capturing'
          /\ (~capturing => UNCHANGED <<provider, platform, streams>>)]_vars

\* a stop of a session that an earlier stop had already torn down returned Ok
C2_Witness ==
    /\ result = Returned("stop_capture", FALSE, "Ok")
    /\ ~capturing
    /\ \E p \in Pools : sessions[p] = "closed"

\* C3: once stop_capture has returned from a capturing session, no
\* frame-arrival handler is registered on any frame pool, the provider holds
\* no session and no frame pool, and the session is not capturing.
C3_StopUnregistersEverything ==
    (result.op = "stop_capture" /\ result.was) =>
        /\ \A p \in Pools : pools[p].handlers = {}
        /\ session = None
        /\ frame_pool = None
        /\ ~capturing

\* C4: set_capture_item called while the session is capturing fails with
\* AlreadyCapturing and leaves the stored item and the staging state as they
\* were.
C4_ConfigureWhileCapturing ==
    [][\A item \in Items : (capturing /\ set_capture_item(item)) =>
          /\ result'.ret = "AlreadyCapturing"
          /\ UNCHANGED <<capture_item, staging>>]_vars

C6_StartWithoutItem ==
    [][(capture_item = None /\ start_capture) =>
          /\ result' = Returned("start_capture", FALSE, "NoCaptureItem")
          /\ UNCHANGED <<provider, platform, streams>>]_vars

\* a start before any set_capture_item was refused
C6_Witness ==
    /\ result = Returned("start_capture", FALSE, "NoCaptureItem")
    /\ capture_item = None
    /\ ~capturing

\* C7: when the platform refuses StartCapture inside start_capture, the call
\* returns the platform error and changes nothing (the session is not marked
\* capturing); the call marks the session capturing only when the stored
\* session, if any, has been started.
C7_FailedArmChangesNothing ==
    [][start_capture =>
          /\ (result'.ret = "FailedToStartCapture" =>
                  /\ ~capturing /\ session # None
                  /\ UNCHANGED <<provider, platform, streams>>)
          /\ ((~capturing /\ capturing' /\ session # None) =>
                  sessions'[session] = "started")
          /\ (result'.ret # "Ok" => UNCHANGED <<provider, platform, streams>>)]_vars

\* the platform refused to start the session of an attached stream
C7_Witness ==
    /\ result = Returned("start_capture", FALSE, "FailedToStartCapture")
    /\ ~capturing
    /\ session # None
    /\ sessions[session] = "idle"
    /\ stream_tokens # <<>>

\* C8: stop_capture keeps the stored capture item, and start_capture on a
\* session that is not capturing and has an item needs no set_capture_item:
\* it keeps the item and either succeeds and marks the session capturing or
\* returns the platform's refusal; with no stored session, as after a stop,
\* it succeeds.
C8_RestartAfterStop ==
    [][/\ stop_capture => capture_item' = capture_item
       /\ (start_capture /\ ~capturing /\ capture_item # None) =>
              /\ capture_item' = capture_item
              /\ result'.ret \in {"Ok", "FailedToStartCapture"}
              /\ (result'.ret = "Ok" => capturing')
              /\ (session = None => result'.ret = "Ok")]_vars

\* a session stopped after capturing was started again with the item it had
C8_Witness ==
    /\ result = Returned("start_capture", FALSE, "Ok")
    /\ capturing
    /\ capture_item # None
    /\ session = None
    /\ \E p \in Pools : sessions[p] = "closed"

\* C9, as stated: create_stream called while no capture item has been set
\* fails with NoFramePool, registers no handler and changes nothing.
C9_CreateStreamUninitialized_NoFramePool ==
    [][(capture_item = None /\ create_stream) =>
          /\ result'.ret = "NoFramePool"
          /\ UNCHANGED <<provider, platform, streams>>]_vars

\* C9, amended: create_stream called while no capture item has been set fails
\* with NoCaptureItem, registers no handler and changes nothing.
C9_CreateStreamUninitialized ==
    [][(capture_item = None /\ create_stream) =>
          /\ result'.ret = "NoCaptureItem"
          /\ UNCHANGED <<provider, platform, streams>>]_vars

\* a create_stream before any set_capture_item was refused
C9_Witness ==
    /\ result.op = "create_stream"
    /\ result.ret = "NoCaptureItem"
    /\ capture_item = None
    /\ stream_tokens = <<>>
    /\ \A p \in Pools : pools[p].handlers = {}

\* C10: create_stream called with a capture item stored, capturing or not, is
\* never refused for a lifecycle or configuration reason; when it succeeds it
\* registers exactly one handler, on a frame pool created by the call,
\* appends that registration's token to stream_tokens, which grows by one,
\* hands out a live stream, and adds no handler anywhere else.
C10_CreateStreamRegistersOne ==
    [][(capture_item # None /\ create_stream) =>
          /\ result'.ret \notin {"NoCaptureItem", "NoFramePool", "AlreadyCapturing", "NotCapturing"}
          /\ (result'.ret = "Ok" =>
                /\ Len(stream_tokens') = Len(stream_tokens) + 1
                /\ SubSeq(stream_tokens', 1, Len(stream_tokens)) = stream_tokens
                /\ \E p \in Pools :
                      /\ pools[p].state = "free"
                      /\ pools'[p].handlers = {p}
                      /\ stream_tokens'[Len(stream_tokens')] = p
                      /\ rx'[p] = "live"
                      /\ chan'[p] = <<>>
                      /\ \A q \in Pools \ {p} :
                            /\ pools'[q].handlers \subseteq pools[q].handlers
                            /\ rx'[q] = rx[q]
                /\ capturing' = capturing
                /\ capture_item' = capture_item)]_vars

\* a second stream was created on a capturing session
C10_Witness ==
    /\ result = Returned("create_stream", TRUE, "Ok")
    /\ capturing
    /\ Len(stream_tokens) = 2
    /\ pools[2].handlers = {2}
    /\ rx[2] = "live"

\* ======================================================================
\* Properties of the frame channel and of the streams
\* ======================================================================

Min(a, b) == IF a < b THEN a ELSE b

\* the arrival numbers of the frames of a queue, oldest first
FrameIds(q) == [i \in 1..Len(q) |-> q[i].id]

\* C11: while the consumer of a stream has received nothing, n arrivals that
\* each reach the send leave exactly min(n, 2) frames queued, the first ones,
\* so the other n - min(n, 2) were dropped; the queue never holds more than
\* 2 frames, and the callback can always run to its end, full queue or not.
C11_SendsBeyondCapacityAreDropped ==
    \A p \in Pools :
        /\ Len(chan[p]) <= 2
        /\ (rx[p] = "live" /\ seen[p] = <<>>) =>
              /\ Len(chan[p]) = Min(arrivals, 2)
              /\ FrameIds(chan[p]) = [i \in 1..Min(arrivals, 2) |-> i]
        /\ (rx[p] = "live" /\ sessions[p] = "started" /\ arrivals < MaxSends) =>
              ENABLED FrameArrivedSends(p)

\* five frames were sent to a consumer that polled none: two are queued
C11_Witness ==
    /\ arrivals = 5
    /\ rx[1] = "live"
    /\ seen[1] = <<>>
    /\ FrameIds(chan[1]) = <<1, 2>>

\* C12: an arrival that finds the queue full is dropped and leaves the queued
\* frames as they are; poll_next yields the oldest queued frame and keeps the
\* rest in order; so a consumer that polled nothing during three arrivals
\* has the first two frames queued and receives exactly those, in order.
C12_NewestFrameIsDropped ==
    /\ [][\A p \in Pools :
            /\ (FrameArrivedSends(p) /\ Len(chan[p]) = 2) => chan' = chan
            /\ (RecvSeen(p) /\ chan[p] # <<>>) =>
                  /\ seen'[p] = Append(seen[p], chan[p][1].id)
                  /\ chan'[p] = Tail(chan[p])]_vars
    /\ [](\A p \in Pools :
            (rx[p] = "live" /\ seen[p] = <<>> /\ arrivals >= 3) =>
                FrameIds(chan[p]) = <<1, 2>>)
    /\ [](\A p \in Pools :
            (arrivals = 3 /\ chan[p] = <<>> /\ Len(seen[p]) = 2) => seen[p] = <<1, 2>>)

\* the third arrival found two frames queued; the consumer then received the
\* first two and nothing else
C12_Witness ==
    /\ arrivals = 3
    /\ seen[1] = <<1, 2>>
    /\ chan[1] = <<>>

IsStrictlyIncreasing(q) == \A i, j \in 1..Len(q) : i < j => q[i] < q[j]

\* the frames the consumer of stream p has been given, by arrival number
FramesSeen(p) == SelectSeq(seen[p], LAMBDA x : x # End)

\* C13: for every stream, the frames its consumer has been given followed by
\* the frames still queued for it are arrivals that have happened, in
\* strictly increasing order of arrival: what a consumer observes is a
\* subsequence of the arrival order, with no frame twice and none out of order.
C13_ObservedIsSubsequenceOfArrivals ==
    \A p \in Pools :
        LET q == FramesSeen(p) \o FrameIds(chan[p]) IN
        /\ IsStrictlyIncreasing(q)
        /\ \A i \in 1..Len(q) : q[i] \in 1..arrivals

\* a consumer has been given two frames
C13_Witness ==
    \E p \in Pools : Len(FramesSeen(p)) = 2 /\ rx[p] = "live"

\* C14: with one item set, one stream created and the capture started, of
\* three arrivals only the second and the third are emitted (the first falls
\* under the first-frame policy); every emitted frame has the size of the
\* item and the format BGRA8, and the timestamps of the emitted frames are
\* strictly increasing.
C14_FirstArrivalIsNotEmitted ==
    \A p \in Pools :
        rx[p] = "live" =>
            /\ \A i \in 1..Len(seen[p]) : seen[p][i] # 1
            /\ \A i \in 1..Len(chan[p]) :
                  /\ chan[p][i].id # 1
                  /\ chan[p][i].w = ItemSize(capture_item).w
                  /\ chan[p][i].h = ItemSize(capture_item).h
                  /\ chan[p][i].format = "BGRA8"
            /\ \A i, j \in 1..Len(chan[p]) :
                  i < j => chan[p][i].timestamp < chan[p][j].timestamp

\* C15: a frame arrival one of whose steps fails queues no frame, leaves the
\* owner's view of the session (item, capturing flag, frame pools, sessions,
\* registrations, the last result) as it was and does not end the process;
\* and an arrival none of whose steps fails is processed to the end, earlier
\* failures or not: the frame counter advances and the frame is queued if
\* the stream is live and its queue has room.
C15_FailedArrivalIsSkipped ==
    [][\A p \in Pools, fail \in CallbackFailures :
       \A ntex \in CreatedTextures(pools[p].size) :
          FrameArrivedWith(p, fail, ntex) =>
              /\ (fail # "none" \/ ntex < PIPELINE_DEPTH) =>
                    /\ chan' = chan
                    /\ ~aborted'
                    /\ UNCHANGED <<capture_item, capturing, frame_pool, session,
                                   stream_tokens, platform, rx, result>>
              /\ (fail = "none" /\ ntex = PIPELINE_DEPTH) =>
                    /\ ~aborted'
                    /\ staging'.frame_count >= 1
                    /\ (rx[p] = "live" /\ Len(chan[p]) < ChannelCapacity) =>
                          Len(chan'[p]) = Len(chan[p]) + 1]_vars

\* C16: once the consumer has dropped the stream of the provider's current
\* frame pool, the handler registered for that stream is eventually no longer
\* registered.
C16_DropUnregistersHandler ==
    \A p \in Pools :
        []((rx[p] = "dropped" /\ frame_pool = p) => <>(p \notin pools[p].handlers))

\* C17: a stream whose frame pool stop_capture has closed has lost its
\* handler, and with it the sender, once no callback of it is still running;
\* a stream without sender yields what is queued and then its end; the end is
\* the last thing a consumer is given, with nothing queued behind it, whatever
\* the owner does afterwards, a new start included.
C17_StreamEndsAfterTeardown ==
    \A p \in Pools :
        /\ pools[p].state = "closed" => p \notin pools[p].handlers
        /\ \A i \in 1..(Len(seen[p]) - 1) : seen[p][i] # End
        /\ SawEnd(p) => (chan[p] = <<>> /\ ~TxAlive(p))
        /\ (rx[p] = "live" /\ ~TxAlive(p) /\ ~SawEnd(p) /\ ~aborted) =>
              ENABLED RecvSeen(p)

\* a stream torn down by stop_capture gave its consumer a frame and then its
\* end, and the capture has been started again
C17_Witness ==
    \E p \in Pools :
        /\ pools[p].state = "closed"
        /\ rx[p] = "live"
        /\ Len(seen[p]) = 2
        /\ seen[p][1] # End
        /\ seen[p][2] = End
        /\ capturing

\* C18: a callback that runs to its end for a stream whose consumer has
\* dropped it queues nothing and changes nothing of what the owner sees
\* (item, capturing flag, frame pools, sessions, registrations, last result);
\* the closed channel never ends the process: a callback ends it only by the
\* panic on a staging state with too few textures.
C18_SendToClosedStreamIsDiscarded ==
    [][\A p \in Pools :
          (EndCallback(p) /\ rx[p] = "dropped") =>
              /\ chan' = chan
              /\ UNCHANGED <<capture_item, capturing, frame_pool, session,
                             stream_tokens, platform, rx, seen, result>>
              /\ aborted' => Len(staging'.textures) < PIPELINE_DEPTH]_vars

\* the handler of a stream that its consumer has dropped is still registered;
\* it has processed one arrival and is running for the second, whose frame it
\* is about to send
C18_Witness ==
    \E p \in Pools :
        /\ rx[p] = "dropped"
        /\ p \in pools[p].handlers
        /\ sessions[p] = "started"
        /\ inflight[p] = 2
        /\ staging.frame_count = 1
        /\ Len(staging.textures) = PIPELINE_DEPTH

\* C19: while the session is capturing, every stream that was handed out,
\* has not been dropped by its consumer and has not been torn down by
\* stop_capture is being fed: its handler is registered on an open frame pool
\* whose capture session is started, whatever other streams were created
\* before or after it.
C19_EveryLiveStreamIsFed ==
    capturing =>
        \A p \in Pools :
            (rx[p] = "live" /\ pools[p].state # "closed") =>
                /\ pools[p].state = "open"
                /\ p \in pools[p].handlers
                /\ sessions[p] = "started"

\* C20: a callback that had begun on a handler registered before stop_capture
\* and that completes after stop_capture has closed its frame pool is a no-op:
\* it leaves the staging slots and the frame counter as they are and delivers
\* no frame.
C20_CallbackAfterStopIsNoOp ==
    [][\A p \in Pools :
           (inflight[p] # 0 /\ pools[p].state = "closed" /\ EndCallback(p)) =>
               UNCHANGED <<staging, chan>>]_vars

\* ======================================================================
\* Properties of the end of the provider, of the buffers and of the frames
\* ======================================================================

\* C21: once the provider has been dropped, in whatever state it was, no
\* frame-arrival handler is registered on any frame pool, and no frame pool
\* and no capture session is left open.
C21_DropReleasesEverything ==
    Dropped =>
        \A p \in Pools :
            /\ pools[p].handlers = {}
            /\ pools[p].state # "open"
            /\ sessions[p] \notin {"idle", "started"}

\* C22: whatever was asked for and let go before, get_or_create(min_size)
\* returns a buffer of capacity at least min_size, so that the length the
\* handler sets on it never exceeds its capacity; the buffer is one the pool
\* retained, and nothing is allocated, when one large enough is retained, and
\* it is a fresh allocation only otherwise.
C22_BufferIsLargeEnough ==
    /\ [](\A l \in buffers.held : l.len <= l.buf.cap)
    /\ [][\A size \in PoolTargets :
            PoolAcquire(size) =>
                /\ result'.buf.cap >= buffer_size(size)
                /\ IF Sufficient(buffer_pool, buffer_size(size)) # {}
                   THEN /\ result'.buf \in Sufficient(buffer_pool, buffer_size(size))
                        /\ buffer_pool'.allocs = buffer_pool.allocs
                   ELSE /\ result'.buf.id = buffer_pool.allocs + 1
                        /\ buffer_pool'.allocs = buffer_pool.allocs + 1]_vars

\* a request was served with a retained buffer larger than asked for, after
\* other buffers had been allocated
C22_Witness ==
    /\ result.op = "get_or_create"
    /\ result.buf.cap > result.size
    /\ result.buf.id < buffer_pool.allocs
    /\ \E l \in buffers.held : l.buf = result.buf /\ l.len = result.size

\* C23: the pool never retains more than BUFFER_POOL_SIZE buffers: a release
\* to a pool that retains BUFFER_POOL_SIZE buffers discards the buffer.
C23_RetentionIsBounded ==
    /\ [](Cardinality(buffer_pool.free) <= BUFFER_POOL_SIZE)
    /\ [][\A l \in buffers.held :
            (PoolRelease(l) /\ Cardinality(buffer_pool.free) >= BUFFER_POOL_SIZE) =>
                /\ buffer_pool' = buffer_pool
                /\ ~result'.kept]_vars

\* a buffer was released to a pool that retained BUFFER_POOL_SIZE buffers and
\* was discarded
C23_Witness ==
    /\ result.op = "release"
    /\ ~result.kept
    /\ result.buf \notin buffer_pool.free
    /\ Cardinality(buffer_pool.free) = BUFFER_POOL_SIZE

RECURSIVE SumOver(_, _)
SumOver(f, S) ==
    IF S = {} THEN 0
    ELSE LET p == CHOOSE x \in S : TRUE IN f[p] + SumOver(f, S \ {p})

\* how many PooledBuffers are out: with running handlers, in queued frames
\* and in frames consumers hold
LeasesOut ==
    SumOver([p \in Pools |-> Len(buffers.taken[p]) + Len(buffers.queued[p])], Pools)
        + Cardinality(buffers.held)

\* the buffers that are out
BuffersOut ==
    UNION {Range([i \in 1..Len(buffers.taken[p]) |-> buffers.taken[p][i].buf])
             \cup Range([i \in 1..Len(buffers.queued[p]) |-> buffers.queued[p][i].buf])
           : p \in Pools}
        \cup {l.buf : l \in buffers.held}

\* C25: at every moment, with the handlers of several streams taking buffers
\* from the shared pool concurrently, no buffer is in two places at once: the
\* running handlers, the queued frames and the frames the consumers hold all
\* have buffers of their own, and none of these buffers is free in the pool.
C25_NoBufferIsShared ==
    /\ Cardinality(BuffersOut) = LeasesOut
    /\ BuffersOut \cap buffer_pool.free = {}
    /\ \A b1, b2 \in BuffersOut \cup buffer_pool.free : b1.id = b2.id => b1 = b2

\* the handlers of two streams run at the same time, each with a buffer of its
\* own
C25_Witness ==
    /\ \A p \in Pools : buffers.taken[p] # <<>>
    /\ buffers.taken[1][1].buf # buffers.taken[2][1].buf

\* C26: no buffer is leaked: every buffer the pool has allocated is retained
\* by the pool, has been discarded by it on release, or is held by a running
\* handler, a queued frame or a frame a consumer holds; every queued frame and
\* every running handler has its buffer, and nothing else has one.
C26_NoBufferIsLeaked ==
    ~aborted =>
        /\ 1..buffer_pool.allocs =
              {b.id : b \in buffer_pool.free \cup buffers.gone \cup BuffersOut}
        /\ \A p \in Pools :
              /\ Len(buffers.queued[p]) = Len(chan[p])
              /\ (buffers.taken[p] # <<>>) = (inflight[p] # 0)

\* a frame was made from an arrival and its buffer is back in the pool
\* although the consumer never held it: the stream had been dropped
C26_Witness ==
    /\ \E p \in Pools : rx[p] = "dropped" /\ seen[p] = <<>>
    /\ staging.frame_count = 1
    /\ arrivals = 1
    /\ buffers.held = {}
    /\ buffer_pool = [free |-> {[id |-> 1, cap |-> buffer_size(ItemSize(1))]}, allocs |-> 1]

\* C27: the data of every emitted frame is tightly packed: its length is
\* width x height x bytes per pixel for the width and height the same frame
\* carries, also when the target has been resized since the stream was created.
C27_FrameDataIsTightlyPacked ==
    \A p \in Pools :
        \A i \in 1..Len(chan[p]) :
            chan[p][i].len = chan[p][i].w * chan[p][i].h * BytesPerPixel(chan[p][i].format)

\* C28: the platform's frame times grow from arrival to arrival, and so do
\* the timestamps of the frames delivered on a stream, also across arrivals
\* whose system-relative time the platform fails to report.
C28_TimestampsIncrease ==
    \A p \in Pools :
        \A i, j \in 1..Len(chan[p]) :
            i < j => chan[p][i].timestamp < chan[p][j].timestamp

\* frame id is queued on the channel of stream p
Queued(p, id) == \E i \in 1..Len(chan[p]) : chan[p][i].id = id

\* C29: a frame that the callback has processed without error and queued on
\* the channel of a stream is eventually yielded to the consumer of that
\* stream, if the consumer keeps the stream and keeps polling it.
C29_QueuedFrameIsYielded ==
    \A p \in Pools : \A id \in 1..MaxSends :
        [](Queued(p, id) => <>(id \in Range(seen[p]) \/ rx[p] = "dropped"))

\* C30: for every value c of the frame counter the write slot is c mod
\* PIPELINE_DEPTH and the read slot is (c - 1) mod PIPELINE_DEPTH, with read
\* slot 1 at c = 0, where the subtraction wraps; the two differ and both are
\* slots; the callback writes the arrival to the write slot and emits what the
\* read slot held.
C30_SlotIndices ==
    /\ WriteIdx(5) = 1 /\ ReadIdx(5) = 0
    /\ WriteIdx(6) = 0 /\ ReadIdx(6) = 1
    /\ ReadIdx(0) = 1
    /\ [](LET c == staging.frame_count
          IN /\ WriteIdx(c) = c % PIPELINE_DEPTH
             /\ ReadIdx(c) = (c - 1) % PIPELINE_DEPTH
             /\ ReadIdx(c) # WriteIdx(c)
             /\ {WriteIdx(c), ReadIdx(c)} \subseteq 0..(PIPELINE_DEPTH - 1))
    /\ [][\A p \in Pools :
            FrameArrivedSends(p) =>
                LET fresh == NeedsRealloc(staging, pools[p].size)
                    c == IF fresh THEN 0 ELSE staging.frame_count
                    w == (c % PIPELINE_DEPTH) + 1
                    r == ((c - 1) % PIPELINE_DEPTH) + 1
                IN /\ staging'.frame_count = c + 1
                   /\ staging'.textures[w].content = arrivals + 1
                   /\ staging'.textures[r].content =
                          (IF fresh THEN 0 ELSE staging.textures[r].content)
                   /\ Len(chan'[p]) > Len(chan[p]) =>
                          chan'[p][Len(chan'[p])].px = staging'.textures[r].content]_vars

\* five arrivals have been processed: the fifth, at counter 4, went to slot 0
\* and the fourth, at counter 3, to slot 1
C30_Witness ==
    /\ staging.frame_count = 5
    /\ staging.textures[1].content = 5
    /\ staging.textures[2].content = 4

\* ======================================================================
\* Properties of the staging pipeline
\* ======================================================================

C32_SlotGeometryMatchesFrame ==
    /\ [](\A i \in 1..Len(staging.textures) :
             /\ staging.textures[i].w = staging.width
             /\ staging.textures[i].h = staging.height)
    /\ [][\A p \in Pools :
            FrameArrivedResized(p) =>
                LET desc == pools[p].size
                    id == arrivals + 1
                    n == Len(staging'.textures)
                IN (\E i \in 1..n : staging'.textures[i].content = id) =>
                       /\ staging'.width = desc.w
                       /\ staging'.height = desc.h
                       /\ \A i \in 1..n :
                             /\ staging'.textures[i].w = desc.w
                             /\ staging'.textures[i].h = desc.h]_vars

\* two streams of different sizes are being fed; the window of the one was
\* resized, and its arrival, with the new content size, has been copied into
\* a slot of the size of its surface and queued
C32_Witness ==
    \E p, q \in Pools :
        /\ pools[p].size # pools[q].size
        /\ \A r \in {p, q} :
              /\ pools[r].state = "open"
              /\ r \in pools[r].handlers
              /\ sessions[r] = "started"
        /\ Len(chan[p]) = 1
        /\ chan[p][1].w # pools[p].size.w
        /\ Len(staging.textures) = PIPELINE_DEPTH
        /\ staging.textures[1].content = chan[p][1].id
        /\ staging.textures[1].w = pools[p].size.w
        /\ staging.textures[1].h = pools[p].size.h

\* C33: the staging slots and the frame counter are touched only under the
\* one write lock: at most one callback at a time is between
\* ensure_staging_state and the end of process_frame; set_capture_item resets
\* the pipeline only while no callback is in that section; the frame counter
\* changes only by a reset to 0 or by the increment of a callback, which adds
\* exactly one to what it is then (no update is lost); and a callback that gets
\* as far as the send leaves the staging state and the frame that the whole of
\* process_frame, run alone on the state it found, would leave.
C33_StagingIsLocked ==
    /\ [](Cardinality({p \in Pools : Holds(p)}) <= 1)
    /\ [][/\ set_capture_item(1) => \A q \in Pools : ~Holds(q)
          /\ staging'.frame_count # staging.frame_count =>
                \/ staging'.frame_count = 0
                \/ \E p \in Pools : CountFrame(p)
          /\ \A p \in Pools :
                /\ CountFrame(p) => staging'.frame_count = staging.frame_count + 1
                /\ SendFrame(p) =>
                      LET r == process_frame([len |-> buffer_size(pools[p].size)],
                                   CaptureFrame(p, inflight[p], pools[p].size),
                                   section[p].before, "none", PIPELINE_DEPTH)
                      IN /\ r.outcome = "sent"
                         /\ r.staging = staging
                         /\ r.frame = BuiltFrame(p)]_vars

\* the callbacks of two streams are running at once: the one holds the guard
\* and has copied its frame into slot 0, the other has taken its frame and
\* waits for the lock
C33_Witness ==
    \E p, q \in Pools :
        /\ p # q
        /\ section[p].pc = "copied"
        /\ staging.textures[1].content = inflight[p]
        /\ inflight[q] # 0
        /\ ~Holds(q)
        /\ ~aborted

\* C34: no emitted frame carries what was read from a staging slot that has
\* received no copy since the slots were allocated: the first arrival after a
\* start, after a set_capture_item and after a change of geometry, at frame
\* counter 0, does not emit the content of a slot never written.
C34_NoUnwrittenSlotIsEmitted ==
    \A p \in Pools :
        \A i \in 1..Len(chan[p]) : chan[p][i].px # NewTexture(pools[p].size).content

\* C35: the frame counter advances by exactly one for every arrival whose
\* copy and read succeed, whether the frame is then queued, dropped because
\* the channel is full or dropped because the consumer is gone; an arrival
\* that fails does not advance it: it stays what it was, or 0 if that arrival
\* got as far as rebuilding the slots, so that a full channel never stalls
\* the rotation of the slots.
C35_CounterAdvancesOnSuccess ==
    [][\A p \in Pools, fail \in CallbackFailures :
       \A ntex \in CreatedTextures(pools[p].size) :
          FrameArrivedLateWith(p, fail, ntex) =>
              LET reached == fail \notin {"next_frame", "surface"}
                  c0 == IF reached /\ NeedsRealloc(staging, pools[p].size)
                        THEN 0 ELSE staging.frame_count
                  ok == fail = "none" /\ ntex = PIPELINE_DEPTH /\ ~aborted'
              IN /\ ok => staging'.frame_count = c0 + 1
                 /\ ~ok => staging'.frame_count = c0
                 /\ fail \in {"next_frame", "surface"} => staging' = staging
                 /\ (ok /\ rx[p] = "live" /\ Len(chan[p]) < ChannelCapacity) =>
                        Len(chan'[p]) = Len(chan[p]) + 1
                 /\ (ok /\ (rx[p] # "live" \/ Len(chan[p]) >= ChannelCapacity)) =>
                        chan' = chan]_vars

\* the channel of a stream is full and its consumer never polled; four
\* frames have arrived, one failed and three were counted, the third of them
\* dropped at the full channel
C35_Witness ==
    \E p \in Pools :
        /\ rx[p] = "live"
        /\ Len(chan[p]) = ChannelCapacity
        /\ arrivals = 4
        /\ staging.frame_count = 3
        /\ ~aborted

\* C36: a staging slot set that is not empty holds exactly PIPELINE_DEPTH
\* slots, whatever arrivals, set_capture_item calls, changes of geometry and
\* failures to create a staging surface came before; hence the write slot
\* and the read slot of the next arrival exist.
C36_SlotSetIsComplete ==
    staging.textures # <<>> =>
        /\ Len(staging.textures) = PIPELINE_DEPTH
        /\ WriteIdx(staging.frame_count) + 1 <= Len(staging.textures)
        /\ ReadIdx(staging.frame_count) + 1 <= Len(staging.textures)

\* C37: in every emitted frame the pixel data and the timestamp come from the
\* same arrival: a frame never pairs the pixel content of one arrival with the
\* timestamp of another.
C37_FrameIsOfOneArrival ==
    \A p \in Pools :
        \A i \in 1..Len(chan[p]) :
            chan[p][i].px \in 1..MaxSends => chan[p][i].px = chan[p][i].timestamp

\* C38: a create_stream that returns an error leaves the session as it was:
\* no handler more is registered on any frame pool, stream_tokens has no
\* token more, and the stored frame pool and session are the ones held before
\* the call, also when it is StartCapture on the new session that fails while
\* capturing.
C38_FailedCreateStreamChangesNothing ==
    [][(create_stream /\ result'.ret # "Ok") =>
          /\ stream_tokens' = stream_tokens
          /\ frame_pool' = frame_pool
          /\ session' = session
          /\ \A p \in Pools : pools'[p].handlers \subseteq pools[p].handlers]_vars

\* C39: when start_capture has succeeded, every stream that was created
\* before it and that its consumer still holds is armed: its handler is
\* registered on an open frame pool whose capture session has been started,
\* so that frames can arrive on it; not only the stream created last.
C39_StartArmsEveryStream ==
    (result = Returned("start_capture", FALSE, "Ok")) =>
        \A p \in Pools :
            rx[p] = "live" =>
                /\ pools[p].state = "open"
                /\ p \in pools[p].handlers
                /\ sessions[p] = "started"
                /\ arrivals < MaxArrivals => ENABLED FrameArrived(p)

\* C40: every callback ends and releases the staging lock, whether it
\* succeeds, fails or has its frame dropped: a callback that holds the guard
\* eventually holds it no longer, so that set_capture_item or another
\* callback waiting for the lock gets it.
C40_LockIsReleased ==
    \A p \in Pools : [](Holds(p) => <>(\A q \in Pools : ~Holds(q)))

====
